---- MODULE Spec2Model ----
(***************************************************************************)
(* Model of mapper/mapper.py: the Bedrock -> Java conversion and BlueMap    *)
(* render service.  The module follows the control flow of main(),          *)
(* run_periodic_refresh_service(), run_refresh_cycle() and                  *)
(* stop_bluemap_process(), one action per statement that can fail, block or *)
(* be interrupted.  A KeyboardInterrupt may be delivered between any two    *)
(* steps of the main thread; the web-server child processes live and die    *)
(* independently of it.                                                     *)
(*                                                                         *)
(* Spec is the service as a whole, with every stage of a refresh cycle one  *)
(* step.  SpecConvert is one call of convert_bedrock_map_to_java_map(),     *)
(* statement by statement.  SpecConfig is generate_bluemap_config() run     *)
(* cycle after cycle on a configuration directory, with the text of the     *)
(* files and the regular expressions of the patches spelled out.            *)
(* SpecMapConfig is write_map_config() run cycle after cycle on a maps      *)
(* directory.  SpecPaths is the derivation of the output and converted-     *)
(* world paths in main(), with pathlib's expanduser() and resolve().        *)
(***************************************************************************)
EXTENDS Integers, Sequences, FiniteSets, TLC

(* ---- bounds of the model ---- *)
\* scheduled ticks the loop may run
MaxTicks == 2
\* KeyboardInterrupts that may be delivered in one run
MaxInterrupts == 2
\* largest refresh interval drawn for --render-interval
MaxInterval == 1

(* ---- program constants ---- *)
\* stop_bluemap_process: process.wait(timeout=30) after terminate()
GracefulTimeout == 30
\* stop_bluemap_process: process.wait(timeout=10) after kill()
KillTimeout == 10

\* the absent handle (bluemap_process = None)
None == 0
\* one web-server may be started initially and one on every tick
Pids == 1..(MaxTicks + 1)
Intervals == (0 - 1)..MaxInterval
\* the directories ensure_directories creates
Dirs == {"output_path", "config_dir", "maps"}
\* command lines: accepted, rejected by argparse, --help
Argvs == {"ok", "bad", "help"}

VARIABLES
    pc,               \* position of the main thread
    argv,             \* kind of command line given
    jar_exists,       \* glb_cfg.bluemap_jar.exists()
    world_exists,     \* glb_cfg.bedrock_world_dir.exists()
    render_interval,  \* glb_cfg.render_interval
    fs_dirs,          \* directories that exist on disk
    created_dirs,     \* directories this run has created
    bluemap_process,  \* the handle run_periodic_refresh_service tracks
    spawned,          \* Popen object returned but not yet assigned
    procs,            \* state of every web-server child process
    reaped,           \* processes whose exit poll()/wait() has observed
    exc,              \* exception in flight ("none" when there is none)
    exit_code,        \* process exit status, -1 while running
    phase,            \* "initial" cycle or a scheduled "tick"
    tick,             \* number of sleeps completed
    stop_caller,      \* "loop" (line 516) or "finally" (line 535)
    stop_ops,         \* calls made on the handle by the current stop
    interrupts,       \* KeyboardInterrupts delivered so far
    n_convert, n_config, n_mapcfg, n_render,  \* stage calls made
    n_start,          \* Popen calls made
    n_terminate, n_kill, n_wait,              \* calls made on handles
    n_logged,         \* per-tick failures logged by the loop
    init_failure,     \* error raised by the initial cycle or start
    conv_failed,      \* a scheduled conversion has raised
    cycle_ok,         \* the current cycle ran all four stages
    \* ---- one call of convert_bedrock_map_to_java_map() ----
    c_pc,             \* position inside the call
    world_writable,   \* os.access(bedrock_world_dir, os.W_OK)
    java_world,       \* glb_cfg.java_world_dir on disk
    temp_root,        \* the mkdtemp() directory on disk
    snapshot_root,    \* local variable snapshot_root
    bedrock_world,    \* local variable bedrock_world
    java_wrapper,     \* local variable java_wrapper
    opened,           \* world handles the call has obtained
    closes,           \* close() calls made on each world handle
    suppressed,       \* cleanup failures swallowed by the finally clause
    c_body,           \* how the try body ended
    c_exc,            \* exception in flight inside the call
    c_result,         \* value the call returns
    c_interrupts,     \* KeyboardInterrupts delivered to the call
    \* ---- generate_bluemap_config() on a configuration directory ----
    render_threads,   \* glb_cfg.render_threads
    conf_given,       \* the configuration files before the first run
    conf_files,       \* the configuration files now
    conf_once,        \* the configuration files after the first run
    n_generate,       \* runs of generate_bluemap_config so far
    \* ---- write_map_config() on the maps directory ----
    map_sample,       \* another *.conf file in config_dir/maps
    map_target,       \* config_dir/maps/<java_world_dir.name>.conf
    map_once,         \* the target after the first run
    n_write,          \* runs of write_map_config so far
    \* ---- the paths main() derives from the command line ----
    arg_output_path,  \* Path(args.output_path)
    arg_java_world,   \* args.java_world_dir, or "None"
    world_name,       \* bedrock_world_dir.name
    cwd,              \* Path.cwd()
    symlinks,         \* symbolic links the file system holds
    output_path,      \* what normalize_output_path returned or raised
    java_world_dir,   \* the converted-world path main derived
    n_normalize       \* calls of normalize_output_path so far

vars == <<pc, argv, jar_exists, world_exists, render_interval, fs_dirs,
          created_dirs, bluemap_process, spawned, procs, reaped, exc,
          exit_code, phase, tick, stop_caller, stop_ops, interrupts,
          n_convert, n_config, n_mapcfg, n_render, n_start,
          n_terminate, n_kill, n_wait, n_logged, init_failure,
          conv_failed, cycle_ok,
          c_pc, world_writable, java_world, temp_root, snapshot_root,
          bedrock_world, java_wrapper, opened, closes, suppressed, c_body,
          c_exc, c_result, c_interrupts,
          render_threads, conf_given, conf_files, conf_once, n_generate,
          map_sample, map_target, map_once, n_write,
          arg_output_path, arg_java_world, world_name, cwd, symlinks,
          output_path, java_world_dir, n_normalize>>

\* groups left unchanged together
env_vars == <<argv, jar_exists, world_exists, render_interval>>
fs_vars == <<fs_dirs, created_dirs>>
proc_vars == <<bluemap_process, spawned, procs, reaped>>
stop_vars == <<stop_caller, stop_ops, n_terminate, n_kill, n_wait>>
stage_vars == <<n_convert, n_config, n_mapcfg, n_render>>
hist_vars == <<n_logged, init_failure, conv_failed, cycle_ok>>
main_vars == <<pc, env_vars, fs_vars, proc_vars, exc, exit_code, phase, tick,
               stop_vars, interrupts, stage_vars, n_start, hist_vars>>
conv_vars == <<c_pc, world_writable, java_world, temp_root, snapshot_root,
               bedrock_world, java_wrapper, opened, closes, suppressed,
               c_body, c_exc, c_result, c_interrupts>>
conf_vars == <<render_threads, conf_given, conf_files, conf_once,
               n_generate>>
\* state of the specifications of single functions
mapcfg_vars == <<map_sample, map_target, map_once, n_write>>
path_vars == <<arg_output_path, arg_java_world, world_name, cwd, symlinks,
               output_path, java_world_dir, n_normalize>>
\* state of the specifications of single functions
unit_vars == <<conv_vars, conf_vars, mapcfg_vars, path_vars>>
\* what each of those specifications leaves alone
outside_convert == <<main_vars, conf_vars, mapcfg_vars, path_vars>>
outside_config == <<main_vars, conv_vars, mapcfg_vars, path_vars>>
outside_mapcfg == <<main_vars, conv_vars, conf_vars, path_vars>>
outside_paths == <<main_vars, conv_vars, conf_vars, mapcfg_vars>>

\* the files generate_bluemap_config patches (lines 188-191)
ConfFiles == {"core.conf", "webserver.conf", "webapp.conf",
              "storages/file.conf"}
\* a file that does not exist, and one holding text
Absent == [exists |-> FALSE, text |-> <<>>]
File(text) == [exists |-> TRUE, text |-> text]

\* generate_bluemap_config() is not being followed
ConfIdle ==
    /\ render_threads = 0
    /\ conf_given = [f \in ConfFiles |-> Absent]
    /\ conf_files = [f \in ConfFiles |-> Absent]
    /\ conf_once = [f \in ConfFiles |-> Absent]
    /\ n_generate = 0

\* a pathlib path: absolute or relative, and its parts after the root
AbsPath(parts) == [absolute |-> TRUE, parts |-> parts]
RelPath(parts) == [absolute |-> FALSE, parts |-> parts]
\* the outcome of a call: the path returned, or the exception raised
Returned(path, appended) ==
    [raised |-> "none", path |-> path, appended |-> appended]
Raised(e) == [raised |-> e, path |-> RelPath(<<>>), appended |-> FALSE]

\* main() is not deriving paths
PathIdle ==
    /\ arg_output_path = RelPath(<<>>)
    /\ arg_java_world = "None"
    /\ world_name = "world"
    /\ cwd = <<>>
    /\ symlinks = {}
    /\ output_path = Raised("unset")
    /\ java_world_dir = RelPath(<<>>)
    /\ n_normalize = 0

\* write_map_config() is not being followed
MapCfgIdle ==
    /\ map_sample = Absent
    /\ map_target = Absent
    /\ map_once = Absent
    /\ n_write = 0

\* the two world handles of a conversion
Handles == {"java_wrapper", "bedrock_world"}

\* no call of convert_bedrock_map_to_java_map() is being followed
ConvIdle ==
    /\ c_pc = "idle"
    /\ world_writable = TRUE
    /\ java_world = "absent"
    /\ temp_root = "absent"
    /\ snapshot_root = "None"
    /\ bedrock_world = "None"
    /\ java_wrapper = "None"
    /\ opened = {}
    /\ closes = [h \in Handles |-> 0]
    /\ suppressed = {}
    /\ c_body = "running"
    /\ c_exc = "none"
    /\ c_result = "none"
    /\ c_interrupts = 0

Alive == {p \in Pids : procs[p] = "alive"}
Started == {p \in Pids : procs[p] # "unborn"}

Init ==
    /\ pc = "parse_args"
    /\ argv \in Argvs
    /\ jar_exists \in BOOLEAN
    /\ world_exists \in BOOLEAN
    /\ render_interval \in Intervals
    /\ fs_dirs \in {S \in SUBSET Dirs : "maps" \in S => "config_dir" \in S}
    /\ created_dirs = {}
    /\ bluemap_process = None
    /\ spawned = None
    /\ procs = [p \in Pids |-> "unborn"]
    /\ reaped = {}
    /\ exc = "none"
    /\ exit_code = 0 - 1
    /\ phase = "initial"
    /\ tick = 0
    /\ stop_caller = "loop"
    /\ stop_ops = <<>>
    /\ interrupts = 0
    /\ n_convert = 0 /\ n_config = 0 /\ n_mapcfg = 0 /\ n_render = 0
    /\ n_start = 0
    /\ n_terminate = 0 /\ n_kill = 0 /\ n_wait = 0
    /\ n_logged = 0
    /\ init_failure = "none"
    /\ conv_failed = FALSE
    /\ cycle_ok = FALSE
    /\ ConvIdle
    /\ ConfIdle
    /\ MapCfgIdle
    /\ PathIdle


(* ======================= main(), lines 538-625 ======================= *)

\* Leave main() with exception e in flight: nothing in main() catches.
EscapeMain(e) ==
    /\ pc' = "toplevel"
    /\ exc' = e

\* parser.parse_args(argv), line 588: argparse leaves through SystemExit,
\* status 2 for a rejected command line and 0 after printing --help.
ParseOutcome(a) ==
    IF a = "bad" THEN "SystemExit2"
    ELSE IF a = "help" THEN "SystemExit0"
    ELSE "none"

ParseArgs ==
    /\ pc = "parse_args"
    /\ IF ParseOutcome(argv) = "none"
       THEN pc' = "mkdir_output" /\ exc' = exc
       ELSE EscapeMain(ParseOutcome(argv))
    /\ UNCHANGED <<env_vars, unit_vars, fs_vars, proc_vars, exit_code, phase, tick,
                   stop_vars, interrupts, stage_vars, n_start, hist_vars>>

\* One Path.mkdir(parents=True, exist_ok=True) of ensure_directories:
\* an existing directory is left alone, a missing one is created, or the
\* creation fails with OSError.
EnsureDir(d, here, next) ==
    /\ pc = here
    /\ \/ /\ fs_dirs' = fs_dirs \cup {d}
          /\ created_dirs' = created_dirs \cup ({d} \ fs_dirs)
          /\ pc' = next
          /\ exc' = exc
       \/ /\ d \notin fs_dirs
          /\ EscapeMain("OSError")
          /\ UNCHANGED fs_vars
    /\ UNCHANGED <<env_vars, unit_vars, proc_vars, exit_code, phase, tick, stop_vars,
                   interrupts, stage_vars, n_start, hist_vars>>

MkdirOutput == EnsureDir("output_path", "mkdir_output", "mkdir_config")
MkdirConfig == EnsureDir("config_dir", "mkdir_config", "mkdir_maps")
MkdirMaps == EnsureDir("maps", "mkdir_maps", "validate_environment")

\* validate_environment: the JAR first, then the Bedrock world.
ValidationError(jar, world) ==
    IF ~jar THEN "FileNotFoundError"
    ELSE IF ~world THEN "FileNotFoundError"
    ELSE "none"

ValidateEnvironment ==
    /\ pc = "validate_environment"
    /\ IF ValidationError(jar_exists, world_exists) = "none"
       THEN pc' = "interval_check" /\ exc' = exc
       ELSE EscapeMain(ValidationError(jar_exists, world_exists))
    /\ UNCHANGED <<env_vars, unit_vars, fs_vars, proc_vars, exit_code, phase, tick,
                   stop_vars, interrupts, stage_vars, n_start, hist_vars>>

(* ========= run_periodic_refresh_service(), lines 491-535 ============= *)

\* Variant: the check written with < instead of <=.
IntervalInvalid_Strict(i) == i < 0

\* line 493: if glb_cfg.render_interval <= 0
IntervalInvalid(i) == i <= 0

\* lines 493-495, before the try statement: the ValueError leaves the
\* function without running the finally clause.
IntervalCheck ==
    /\ pc = "interval_check"
    /\ IF IntervalInvalid(render_interval)
       THEN EscapeMain("ValueError")
       ELSE pc' = "convert" /\ exc' = exc
    /\ UNCHANGED <<env_vars, unit_vars, fs_vars, proc_vars, exit_code, phase, tick,
                   stop_vars, interrupts, stage_vars, n_start, hist_vars>>

\* Enter the finally clause (line 535) with e in flight ("none" when the
\* KeyboardInterrupt handler has swallowed the interrupt).
EnterFinally(e) ==
    /\ pc' = "stop_poll"
    /\ stop_caller' = "finally"
    /\ exc' = e

\* Variant: the initial cycle wrapped in the same except Exception.
CycleFailureCaught_Always(ph) == TRUE

\* Does the loop catch a failure of the refresh cycle?  Lines 519-523
\* wrap the scheduled cycle in try/except Exception; the initial cycle
\* (line 508) is only inside the outer try.
CycleFailureCaught(ph) == ph = "tick"

\* A stage of run_refresh_cycle raises e.  In a scheduled tick the loop
\* logs it and goes on to restart the web-server (line 525); in the
\* initial cycle it propagates through the finally clause.
StageRaises(e) ==
    /\ cycle_ok' = FALSE
    /\ init_failure' = IF phase = "initial" THEN e ELSE init_failure
    /\ IF CycleFailureCaught(phase)
       THEN /\ pc' = "start"
            /\ n_logged' = n_logged + 1
            /\ UNCHANGED <<exc, stop_caller>>
       ELSE /\ EnterFinally(e)
            /\ n_logged' = n_logged

\* convert_bedrock_map_to_java_map, called at line 485
Convert ==
    /\ pc = "convert"
    /\ n_convert' = n_convert + 1
    /\ \/ /\ pc' = "generate_bluemap_config"
          /\ cycle_ok' = FALSE
          /\ UNCHANGED <<exc, stop_caller, n_logged, init_failure,
                         conv_failed>>
       \/ /\ StageRaises("ConversionError")
          /\ conv_failed' = (conv_failed \/ phase = "tick")
    /\ UNCHANGED <<env_vars, unit_vars, fs_vars, proc_vars, exit_code, phase, tick,
                   interrupts, n_config, n_mapcfg, n_render, n_start,
                   stop_ops, n_terminate, n_kill, n_wait>>

\* generate_bluemap_config, called at line 486
GenerateBluemapConfig ==
    /\ pc = "generate_bluemap_config"
    /\ n_config' = n_config + 1
    /\ \/ /\ pc' = "write_map_config"
          /\ UNCHANGED <<exc, stop_caller, n_logged, init_failure,
                         cycle_ok>>
       \/ StageRaises("ConfigPatchError")
    /\ UNCHANGED <<env_vars, unit_vars, fs_vars, proc_vars, exit_code, phase, tick,
                   interrupts, n_convert, n_mapcfg, n_render, n_start,
                   stop_ops, n_terminate, n_kill, n_wait, conv_failed>>

\* write_map_config, called at line 487
WriteMapConfig ==
    /\ pc = "write_map_config"
    /\ n_mapcfg' = n_mapcfg + 1
    /\ \/ /\ pc' = "render_map"
          /\ UNCHANGED <<exc, stop_caller, n_logged, init_failure,
                         cycle_ok>>
       \/ StageRaises("MapConfigError")
    /\ UNCHANGED <<env_vars, unit_vars, fs_vars, proc_vars, exit_code, phase, tick,
                   interrupts, n_convert, n_config, n_render, n_start,
                   stop_ops, n_terminate, n_kill, n_wait, conv_failed>>

\* render_map, called at line 488: CalledProcessError is re-raised
RenderMap ==
    /\ pc = "render_map"
    /\ n_render' = n_render + 1
    /\ \/ /\ pc' = "start"
          /\ cycle_ok' = TRUE
          /\ UNCHANGED <<exc, stop_caller, n_logged, init_failure>>
       \/ StageRaises("CalledProcessError")
    /\ UNCHANGED <<env_vars, unit_vars, fs_vars, proc_vars, exit_code, phase, tick,
                   interrupts, n_convert, n_config, n_mapcfg, n_start,
                   stop_ops, n_terminate, n_kill, n_wait, conv_failed>>


(* ----- start_bluemap_webserver_process, lines 453-461 ----- *)

\* The next process subprocess.Popen would create.
NextPid == Cardinality(Started) + 1

\* Does the loop catch a failure of the web-server start?  Lines 525-530
\* wrap the scheduled restart in try/except Exception; the initial start
\* (line 509) is only inside the outer try.
StartFailureCaught(ph) == ph = "tick"

\* subprocess.Popen(cmd), line 461: the child is running when Popen
\* returns, or Popen raises and no child exists.  The handle is not yet
\* bound to bluemap_process (that is the assignment of line 509 / 526).
Start ==
    /\ pc = "start"
    /\ n_start' = n_start + 1
    /\ \/ /\ NextPid \in Pids
          /\ procs' = [procs EXCEPT ![NextPid] = "alive"]
          /\ spawned' = NextPid
          /\ pc' = "assign_handle"
          /\ UNCHANGED <<exc, stop_caller, n_logged, init_failure>>
       \/ /\ UNCHANGED <<procs, spawned>>
          /\ init_failure' =
                 IF phase = "initial" THEN "PopenError" ELSE init_failure
          /\ IF StartFailureCaught(phase)
             THEN /\ pc' = "sleep"
                  /\ n_logged' = n_logged + 1
                  /\ UNCHANGED <<exc, stop_caller>>
             ELSE /\ EnterFinally("PopenError")
                  /\ n_logged' = n_logged
    /\ UNCHANGED <<env_vars, unit_vars, fs_vars, bluemap_process, reaped, exit_code,
                   phase, tick, interrupts, stage_vars, stop_ops, n_terminate,
                   n_kill, n_wait, conv_failed, cycle_ok>>

\* bluemap_process = <the Popen just returned>, lines 509 and 526
AssignHandle ==
    /\ pc = "assign_handle"
    /\ bluemap_process' = spawned
    /\ spawned' = None
    /\ pc' = "sleep"
    /\ UNCHANGED <<env_vars, unit_vars, fs_vars, procs, reaped, exc, exit_code, phase,
                   tick, stop_vars, interrupts, stage_vars, n_start,
                   hist_vars>>

\* time.sleep(glb_cfg.render_interval) returns (line 513) and the tick
\* calls stop_bluemap_process(bluemap_process) (line 516).
Sleep ==
    /\ pc = "sleep"
    /\ tick < MaxTicks
    /\ tick' = tick + 1
    /\ phase' = "tick"
    /\ pc' = "stop_poll"
    /\ stop_caller' = "loop"
    /\ UNCHANGED <<env_vars, unit_vars, fs_vars, proc_vars, exc, exit_code, interrupts,
                   stage_vars, n_start, stop_ops, n_terminate, n_kill,
                   n_wait, hist_vars>>

(* ----- stop_bluemap_process, lines 464-480 ----- *)

\* Variant: the poll() test of line 469 left out.
StopIsNoop_IgnoresPoll(process, ps) == process = None

\* lines 466-470: process is None, or process.poll() is not None
StopIsNoop(process, ps) ==
    \/ process = None
    \/ ps[process] # "alive"

\* Variant: the wait treated as returning whether or not the child exited.
WaitOutcome_NeverTimesOut(process, ps) == "exited"

\* process.wait(timeout=t) returns when the child has exited within the
\* timeout and raises TimeoutExpired otherwise.
WaitOutcome(process, ps) ==
    IF ps[process] = "exited" THEN "exited" ELSE "timeout"

\* Where stop_bluemap_process returns to: line 517 in the loop, or out of
\* the finally clause, where the exception in flight goes on to main().
StopReturnPc(caller) ==
    IF caller = "loop" THEN "clear_handle" ELSE "toplevel"

\* poll() and wait() record the exit status of a child that has exited.
Reap(process) ==
    IF process # None /\ procs[process] = "exited"
    THEN reaped \cup {process}
    ELSE reaped

\* Entry of stop_bluemap_process (lines 466-470): no call has been made
\* on the handle yet.
StopPoll ==
    /\ pc = "stop_poll"
    /\ stop_ops' = <<>>
    /\ reaped' = Reap(bluemap_process)
    /\ IF StopIsNoop(bluemap_process, procs)
       THEN pc' = StopReturnPc(stop_caller)
       ELSE pc' = "stop_terminate"
    /\ UNCHANGED <<env_vars, unit_vars, fs_vars, bluemap_process, spawned, procs, exc,
                   exit_code, phase, tick, stop_caller, n_terminate, n_kill,
                   n_wait, interrupts, stage_vars, n_start, hist_vars>>

\* process.terminate(), line 473
StopTerminate ==
    /\ pc = "stop_terminate"
    /\ n_terminate' = n_terminate + 1
    /\ stop_ops' = Append(stop_ops, <<"terminate", 0, "sent">>)
    /\ pc' = "stop_wait"
    /\ UNCHANGED <<env_vars, unit_vars, fs_vars, proc_vars, exc, exit_code, phase, tick,
                   stop_caller, interrupts, stage_vars, n_start, n_kill,
                   n_wait, hist_vars>>

\* Variant: the kill sent whatever the first wait returned.
StopWait_AlwaysEscalates ==
    /\ pc = "stop_wait"
    /\ n_wait' = n_wait + 1
    /\ reaped' = Reap(bluemap_process)
    /\ stop_ops' = Append(stop_ops,
           <<"wait", GracefulTimeout, WaitOutcome(bluemap_process, procs)>>)
    /\ pc' = "stop_kill"
    /\ UNCHANGED <<env_vars, unit_vars, fs_vars, bluemap_process, spawned, procs, exc,
                   exit_code, phase, tick, stop_caller, interrupts,
                   stage_vars, n_start, n_terminate, n_kill, hist_vars>>

\* process.wait(timeout=30), lines 474-478
StopWait ==
    /\ pc = "stop_wait"
    /\ n_wait' = n_wait + 1
    /\ reaped' = Reap(bluemap_process)
    /\ stop_ops' = Append(stop_ops,
           <<"wait", GracefulTimeout, WaitOutcome(bluemap_process, procs)>>)
    /\ IF WaitOutcome(bluemap_process, procs) = "exited"
       THEN pc' = StopReturnPc(stop_caller)
       ELSE pc' = "stop_kill"
    /\ UNCHANGED <<env_vars, unit_vars, fs_vars, bluemap_process, spawned, procs, exc,
                   exit_code, phase, tick, stop_caller, interrupts,
                   stage_vars, n_start, n_terminate, n_kill, hist_vars>>

\* process.kill(), line 479
StopKill ==
    /\ pc = "stop_kill"
    /\ n_kill' = n_kill + 1
    /\ stop_ops' = Append(stop_ops, <<"kill", 0, "sent">>)
    /\ pc' = "stop_wait_kill"
    /\ UNCHANGED <<env_vars, unit_vars, fs_vars, proc_vars, exc, exit_code, phase, tick,
                   stop_caller, interrupts, stage_vars, n_start, n_terminate,
                   n_wait, hist_vars>>

\* Variant: the TimeoutExpired of the second wait swallowed, so that the
\* stop returns although the child has not been seen to exit.
StopWaitKill_SwallowTimeout ==
    /\ pc = "stop_wait_kill"
    /\ n_wait' = n_wait + 1
    /\ reaped' = Reap(bluemap_process)
    /\ stop_ops' = Append(stop_ops,
           <<"wait", KillTimeout, WaitOutcome(bluemap_process, procs)>>)
    /\ pc' = StopReturnPc(stop_caller)
    /\ UNCHANGED <<env_vars, unit_vars, fs_vars, bluemap_process, spawned, procs, exc,
                   stop_caller, exit_code, phase, tick, interrupts,
                   stage_vars, n_start, n_terminate, n_kill, hist_vars>>

\* process.wait(timeout=10), line 480: its TimeoutExpired is not caught
\* in stop_bluemap_process, nor around the call of line 516.
StopWaitKill ==
    /\ pc = "stop_wait_kill"
    /\ n_wait' = n_wait + 1
    /\ reaped' = Reap(bluemap_process)
    /\ stop_ops' = Append(stop_ops,
           <<"wait", KillTimeout, WaitOutcome(bluemap_process, procs)>>)
    /\ IF WaitOutcome(bluemap_process, procs) = "exited"
       THEN /\ pc' = StopReturnPc(stop_caller)
            /\ UNCHANGED <<exc, stop_caller>>
       ELSE IF stop_caller = "loop"
       THEN /\ pc' = "stop_poll"
            /\ stop_caller' = "finally"
            /\ exc' = "TimeoutExpired"
       ELSE /\ pc' = "toplevel"
            /\ exc' = "TimeoutExpired"
            /\ UNCHANGED stop_caller
    /\ UNCHANGED <<env_vars, unit_vars, fs_vars, bluemap_process, spawned, procs,
                   exit_code, phase, tick, interrupts, stage_vars, n_start,
                   n_terminate, n_kill, hist_vars>>

\* bluemap_process = None, line 517, then the scheduled cycle (line 520)
ClearHandle ==
    /\ pc = "clear_handle"
    /\ bluemap_process' = None
    /\ pc' = "convert"
    /\ UNCHANGED <<env_vars, unit_vars, fs_vars, spawned, procs, reaped, exc, exit_code,
                   phase, tick, stop_vars, interrupts, stage_vars, n_start,
                   hist_vars>>


(* ----- KeyboardInterrupt, lines 532-535 and 628-633 ----- *)

MainPcs == {"parse_args", "mkdir_output", "mkdir_config", "mkdir_maps",
            "validate_environment", "interval_check"}
StopPcs == {"stop_poll", "stop_terminate", "stop_wait", "stop_kill",
            "stop_wait_kill"}
CyclePcs == {"convert", "generate_bluemap_config", "write_map_config",
             "render_map"}
\* positions of the while loop of lines 512-530
LoopPcs == CyclePcs \cup StopPcs \cup
           {"start", "assign_handle", "sleep", "clear_handle"}

\* Is the main thread inside the try statement of lines 506-530?
InTry == \/ pc \in CyclePcs \cup {"start", "assign_handle", "sleep",
                                  "clear_handle"}
         \/ pc \in StopPcs /\ stop_caller = "loop"

\* Is the main thread inside the finally clause of line 535?
InFinally == pc \in StopPcs /\ stop_caller = "finally"

\* except KeyboardInterrupt (lines 532-533): the interrupt is logged and
\* swallowed, then the finally clause runs.
ExceptInterrupt ==
    /\ pc = "except_interrupt"
    /\ EnterFinally("none")
    /\ UNCHANGED <<env_vars, unit_vars, fs_vars, proc_vars, exit_code, phase, tick,
                   stop_ops, n_terminate, n_kill, n_wait, interrupts,
                   stage_vars, n_start, hist_vars>>

\* A KeyboardInterrupt is raised in the main thread at its current
\* position.  Inside the try statement the handler of line 532 takes it;
\* inside that handler or the finally clause, and anywhere in main()
\* outside run_periodic_refresh_service's try, it propagates.
Interrupt ==
    /\ interrupts < MaxInterrupts
    /\ interrupts' = interrupts + 1
    /\ \/ /\ InTry
          /\ pc' = "except_interrupt"
          /\ UNCHANGED <<exc, stop_caller>>
       \/ /\ pc = "except_interrupt"
          /\ EnterFinally("KeyboardInterrupt")
       \/ /\ pc \in MainPcs \/ InFinally
          /\ EscapeMain("KeyboardInterrupt")
          /\ UNCHANGED stop_caller
    /\ UNCHANGED <<env_vars, unit_vars, fs_vars, proc_vars, exit_code, phase, tick,
                   stop_ops, n_terminate, n_kill, n_wait, stage_vars,
                   n_start, hist_vars>>

\* A web-server child exits: on its own, or after SIGTERM or SIGKILL.
ProcExits(p) ==
    /\ pc # "exited"
    /\ procs[p] = "alive"
    /\ procs' = [procs EXCEPT ![p] = "exited"]
    /\ UNCHANGED <<pc, env_vars, unit_vars, fs_vars, bluemap_process, spawned, reaped,
                   exc, exit_code, phase, tick, stop_vars, interrupts,
                   stage_vars, n_start, hist_vars>>

(* ----- if __name__ == "__main__", lines 628-638 ----- *)

\* Variant: the KeyboardInterrupt handler of line 631 missing, so that an
\* interrupt falls to the generic handler.
ExitCode_InterruptIsFatal(e) ==
    IF e = "none" THEN 0
    ELSE IF e = "SystemExit0" THEN 0
    ELSE IF e = "SystemExit2" THEN 2
    ELSE 1

\* raise SystemExit(main()) with main() returning 0; a SystemExit raised
\* inside main() passes both handlers; KeyboardInterrupt gives 0; any
\* other Exception gives 1.
ExitCode(e) ==
    IF e = "none" THEN 0
    ELSE IF e = "SystemExit0" THEN 0
    ELSE IF e = "SystemExit2" THEN 2
    ELSE IF e = "KeyboardInterrupt" THEN 0
    ELSE 1

Exit ==
    /\ pc = "toplevel"
    /\ exit_code' = ExitCode(exc)
    /\ pc' = "exited"
    /\ UNCHANGED <<env_vars, unit_vars, fs_vars, proc_vars, exc, phase, tick, stop_vars,
                   interrupts, stage_vars, n_start, hist_vars>>

Next ==
    \/ ParseArgs
    \/ MkdirOutput
    \/ MkdirConfig
    \/ MkdirMaps
    \/ ValidateEnvironment
    \/ IntervalCheck
    \/ Convert
    \/ GenerateBluemapConfig
    \/ WriteMapConfig
    \/ RenderMap
    \/ Start
    \/ AssignHandle
    \/ Sleep
    \/ StopPoll
    \/ StopTerminate
    \/ StopWait
    \/ StopKill
    \/ StopWaitKill
    \/ ClearHandle
    \/ ExceptInterrupt
    \/ Interrupt
    \/ \E p \in Pids : ProcExits(p)
    \/ Exit

Spec == Init /\ [][Next]_vars


(* ============================ properties ============================= *)

\* The service has left run_periodic_refresh_service and main().
Left == pc \in {"toplevel", "exited"}

\* C1 (as claimed): within a scheduled tick, a step of the main thread
\* that is not the delivery of an interrupt keeps the service inside the
\* loop of lines 512-530: no failure of the stop, of the refresh cycle or
\* of the restart ends the loop.
C1_TickFailureKeepsLoop ==
    [][(phase = "tick" /\ InTry /\ interrupts' = interrupts) => InTry']_vars

\* C2: when a scheduled conversion has raised on an earlier tick and, on
\* the current tick, all four stages of the cycle have succeeded and the
\* web-server just started is running as its handle is bound, the service
\* is back at the sleep of the loop and exactly one web-server process is
\* alive, namely the one bluemap_process tracks.
C2_SurvivesFailedConversion ==
    [][(/\ pc = "assign_handle" /\ pc' # pc /\ interrupts' = interrupts
        /\ phase = "tick" /\ conv_failed /\ cycle_ok
        /\ procs[spawned] = "alive")
       => (/\ pc' = "sleep"
           /\ bluemap_process' # None
           /\ Alive' = {bluemap_process'})]_vars

C2_Witness ==
    /\ pc = "sleep" /\ phase = "tick" /\ conv_failed /\ cycle_ok
    /\ tick = 2 /\ n_convert = 3
    /\ bluemap_process # None
    /\ Alive = {bluemap_process}

\* C3: at most one web-server process started by the service is alive in
\* every reachable state, and every call of subprocess.Popen is made when
\* each process started before has been observed (by poll or wait) to
\* have exited.
C3_OneWebserver ==
    /\ [](Cardinality(Alive) <= 1)
    /\ [][(pc = "start" /\ n_start' = n_start + 1)
          => (Started \subseteq reaped /\ Alive = {})]_vars

\* a restart after the previous web-server had to be killed
C3_Witness ==
    /\ pc = "assign_handle" /\ phase = "tick"
    /\ Len(stop_ops) = 4
    /\ Cardinality(Started) = 2
    /\ Alive = {spawned}

\* C4: once a stage of the initial cycle or the initial web-server start
\* has raised, the service never enters the timed loop (no sleep, no
\* second conversion, no second start), no web-server process is running,
\* and the error raised is the one that leaves main() (exit status 1),
\* unless an interrupt delivered inside the finally clause replaces it.
C4_InitialFailureAborts ==
    init_failure # "none" =>
        /\ InFinally \/ Left
        /\ phase = "initial" /\ tick = 0
        /\ n_convert = 1 /\ n_start <= 1
        /\ Started = {} /\ bluemap_process = None /\ spawned = None
        /\ \/ exc = init_failure
           \/ interrupts > 0 /\ exc = "KeyboardInterrupt"
        /\ (pc = "exited" /\ exc = init_failure) => exit_code = 1

C4_Witness ==
    /\ init_failure = "CalledProcessError"
    /\ pc = "exited" /\ exit_code = 1 /\ exc = "CalledProcessError"

\* C5: with a refresh interval that is zero or negative no conversion, no
\* config patch, no map-config write, no render and no web-server start
\* is ever performed, and a run that reaches the service without another
\* error leaves with the ValueError of line 494.
C5_IntervalRejectedFirst ==
    /\ render_interval <= 0 =>
          /\ n_convert = 0 /\ n_config = 0 /\ n_mapcfg = 0 /\ n_render = 0
          /\ n_start = 0 /\ Started = {}
          /\ pc \in MainPcs \cup {"toplevel", "exited"}
          /\ (Left /\ argv = "ok" /\ jar_exists /\ world_exists
                /\ interrupts = 0 /\ exc # "OSError") => exc = "ValueError"
    /\ exc = "ValueError" => render_interval <= 0

C5_Witness ==
    /\ render_interval = 0
    /\ pc = "exited" /\ exc = "ValueError" /\ exit_code = 1


\* C6 (as claimed): when a configuration error (missing JAR, missing
\* Bedrock world, refresh interval not positive) leaves main(), this run
\* has created no directory, written no file and started no subprocess.
C6_ConfigErrorBeforeSideEffects ==
    (Left /\ exc \in {"FileNotFoundError", "ValueError"}) =>
        /\ created_dirs = {}
        /\ n_convert = 0 /\ n_config = 0 /\ n_mapcfg = 0 /\ n_render = 0
        /\ n_start = 0

\* C7 (as claimed): when the service has left after an interrupt was
\* delivered, no web-server process it started is still alive.
C7_InterruptStopsWebserver ==
    (Left /\ interrupts > 0) => Alive = {}

\* C8 (as claimed): the exit status is 0 exactly when the run ended
\* normally or by an interrupt, and 1 exactly when anything else left
\* main().
C8_ExitZeroOrOne ==
    pc = "exited" =>
        /\ exit_code \in {0, 1}
        /\ exit_code = 0 <=> exc \in {"none", "SystemExit0", "KeyboardInterrupt"}
        /\ exit_code = 1 <=> exc \notin {"none", "SystemExit0", "KeyboardInterrupt"}

\* what can leave main() as an Exception
Errors == {"OSError", "FileNotFoundError", "ValueError", "ConversionError",
           "ConfigPatchError", "MapConfigError", "CalledProcessError",
           "PopenError", "TimeoutExpired"}

\* C8 (amended): the exit status is 0 exactly when main() returned, argparse
\* printed its help, or a KeyboardInterrupt left main(); 1 exactly when an
\* Exception left main(); and 2 exactly when argparse rejected the command
\* line.  main() returns only after the service swallowed an interrupt.
C8_ExitStatus ==
    pc = "exited" =>
        /\ exit_code \in {0, 1, 2}
        /\ exit_code = 0 <=> exc \in {"none", "SystemExit0", "KeyboardInterrupt"}
        /\ exit_code = 1 <=> exc \in Errors
        /\ exit_code = 2 <=> exc = "SystemExit2"
        /\ exc = "SystemExit2" => argv = "bad"
        /\ exc = "SystemExit0" => argv = "help"
        /\ exc \in {"none", "KeyboardInterrupt"} => interrupts > 0
        /\ exc \in Errors => argv = "ok"

\* the service swallowed an interrupt, stopped its web-server and main()
\* returned 0
C8_Witness ==
    /\ pc = "exited" /\ exit_code = 0 /\ exc = "none"
    /\ interrupts = 1 /\ tick = 1 /\ Started # {} /\ Alive = {}

\* C9: a call of stop_bluemap_process with an absent handle, or with the
\* handle of a process that has exited, returns at once: no terminate, no
\* kill and no wait is made, no exception is raised and no process
\* changes state.
C9_StopNoop ==
    [][(/\ pc = "stop_poll" /\ pc' # pc /\ interrupts' = interrupts
        /\ (bluemap_process = None \/ procs[bluemap_process] = "exited"))
       => (/\ pc' = StopReturnPc(stop_caller)
           /\ stop_ops' = <<>>
           /\ n_terminate' = n_terminate /\ n_kill' = n_kill
           /\ n_wait' = n_wait
           /\ exc' = exc /\ procs' = procs
           /\ bluemap_process' = bluemap_process)]_vars

\* the tick's stop has returned for a web-server that had exited on its own
C9_Witness ==
    /\ pc = "clear_handle" /\ stop_ops = <<>>
    /\ bluemap_process # None /\ procs[bluemap_process] = "exited"
    /\ n_terminate = 0 /\ n_wait = 0

\* the calls stop_bluemap_process may have made on a live handle
StopRuns ==
    { << <<"terminate", 0, "sent">>, <<"wait", GracefulTimeout, "exited">> >>,
      << <<"terminate", 0, "sent">>, <<"wait", GracefulTimeout, "timeout">>,
         <<"kill", 0, "sent">>, <<"wait", KillTimeout, "exited">> >>,
      << <<"terminate", 0, "sent">>, <<"wait", GracefulTimeout, "timeout">>,
         <<"kill", 0, "sent">>, <<"wait", KillTimeout, "timeout">> >> }

IsPrefix(a, b) == Len(a) <= Len(b) /\ SubSeq(b, 1, Len(a)) = a

\* C10: the calls a stop makes on a live handle are, in this order,
\* terminate, a wait of 30, and only when that wait timed out kill and a
\* wait of 10; kill is made for a process not yet seen to exit, and a stop
\* that returns or raises without an interrupt has not ended on terminate
\* or kill.
C10_GracefulThenKill ==
    /\ \E r \in StopRuns : IsPrefix(stop_ops, r)
    /\ pc = "stop_terminate" => stop_ops = <<>>
    /\ pc = "stop_wait" => Len(stop_ops) = 1
    /\ pc = "stop_kill" => (Len(stop_ops) = 2 /\ bluemap_process \notin reaped)
    /\ pc = "stop_wait_kill" => Len(stop_ops) = 3
    /\ (Len(stop_ops) \in {1, 3} /\ interrupts = 0)
          => pc \in {"stop_wait", "stop_wait_kill"}

\* the process ignored terminate for 30, was killed and exited within 10
C10_Witness ==
    /\ pc = "clear_handle"
    /\ Len(stop_ops) = 4
    /\ stop_ops[2] = <<"wait", GracefulTimeout, "timeout">>
    /\ stop_ops[4] = <<"wait", KillTimeout, "exited">>
    /\ procs[bluemap_process] = "exited"


(* ========== convert_bedrock_map_to_java_map(), lines 95-183 ========== *)
(* SpecConvert follows one call, statement by statement.  Every library    *)
(* call may raise; a KeyboardInterrupt may arrive before any statement.    *)

\* the service is not running while one function is followed on its own
MainIdle ==
    /\ pc = "idle"
    /\ argv = "ok"
    /\ jar_exists = TRUE
    /\ world_exists = TRUE
    /\ render_interval = 0
    /\ fs_dirs = Dirs
    /\ created_dirs = {}
    /\ bluemap_process = None
    /\ spawned = None
    /\ procs = [p \in Pids |-> "unborn"]
    /\ reaped = {}
    /\ exc = "none"
    /\ exit_code = 0 - 1
    /\ phase = "initial"
    /\ tick = 0
    /\ stop_caller = "loop"
    /\ stop_ops = <<>>
    /\ interrupts = 0
    /\ n_convert = 0 /\ n_config = 0 /\ n_mapcfg = 0 /\ n_render = 0
    /\ n_start = 0
    /\ n_terminate = 0 /\ n_kill = 0 /\ n_wait = 0
    /\ n_logged = 0
    /\ init_failure = "none"
    /\ conv_failed = FALSE
    /\ cycle_ok = FALSE

\* statements of the try body and of the finally clause
BodyPcs == {"access", "mkdtemp", "copytree", "load_level", "read_level",
            "rmtree_java", "AnvilFormat", "create_and_open", "save",
            "close_java", "close_bedrock", "return"}
FinallyPcs == {"finally_java", "finally_bedrock", "finally_snapshot"}

\* lines 104-106: the three locals start as None; the source world may be
\* read-only and a converted world may be left from the previous cycle
InitConvert ==
    /\ MainIdle
    /\ ConfIdle
    /\ MapCfgIdle
    /\ PathIdle
    /\ c_pc = "access"
    /\ world_writable \in BOOLEAN
    /\ java_world \in {"absent", "old"}
    /\ temp_root = "absent"
    /\ snapshot_root = "None"
    /\ bedrock_world = "None"
    /\ java_wrapper = "None"
    /\ opened = {}
    /\ closes = [h \in Handles |-> 0]
    /\ suppressed = {}
    /\ c_body = "running"
    /\ c_exc = "none"
    /\ c_result = "none"
    /\ c_interrupts = 0

\* an exception leaves the try body: both handlers (lines 159-167) log and
\* re-raise it, then the finally clause runs
ConvRaise(e) ==
    /\ c_exc' = e
    /\ c_body' = e
    /\ c_pc' = "finally_java"

\* line 82: os.access(bedrock_world_dir, os.W_OK)
PrepareAccess ==
    /\ c_pc = "access"
    /\ IF world_writable
          THEN /\ c_pc' = "load_level"     \* line 83, snapshot_root = None
          ELSE /\ c_pc' = "mkdtemp"
    /\ UNCHANGED <<outside_convert, world_writable, java_world, temp_root,
                   snapshot_root, bedrock_world, java_wrapper, opened,
                   closes, suppressed, c_body, c_exc, c_result,
                   c_interrupts>>

\* line 85: temp_root = Path(tempfile.mkdtemp(...))
PrepareMkdtemp ==
    /\ c_pc = "mkdtemp"
    /\ \/ /\ temp_root' = "exists"
          /\ c_pc' = "copytree"
          /\ UNCHANGED <<c_exc, c_body>>
       \/ /\ ConvRaise("OSError")
          /\ UNCHANGED temp_root
    /\ UNCHANGED <<outside_convert, world_writable, java_world, snapshot_root,
                   bedrock_world, java_wrapper, opened, closes, suppressed,
                   c_result, c_interrupts>>

\* lines 89-92 and 108: copytree, then the returned temp_root is bound to
\* snapshot_root; when copytree raises, line 108 never assigns
PrepareCopytree ==
    /\ c_pc = "copytree"
    /\ \/ /\ snapshot_root' = "temp_root"
          /\ c_pc' = "load_level"
          /\ UNCHANGED <<c_exc, c_body>>
       \/ /\ ConvRaise("OSError")
          /\ UNCHANGED snapshot_root
    /\ UNCHANGED <<outside_convert, world_writable, java_world, temp_root,
                   bedrock_world, java_wrapper, opened, closes, suppressed,
                   c_result, c_interrupts>>

\* Variant: the converted world of the previous cycle removed before the
\* source world is loaded.
LoadLevel_RemovesJavaWorldFirst ==
    /\ c_pc = "load_level"
    /\ java_world' = "absent"
    /\ \/ /\ bedrock_world' = "handle"
          /\ opened' = opened \cup {"bedrock_world"}
          /\ c_pc' = "read_level"
          /\ UNCHANGED <<c_exc, c_body>>
       \/ /\ \E e \in {"LoaderNoneMatched", "Exception"} : ConvRaise(e)
          /\ UNCHANGED <<bedrock_world, opened>>
    /\ UNCHANGED <<outside_convert, world_writable, temp_root,
                   snapshot_root, java_wrapper, closes, suppressed,
                   c_result, c_interrupts>>

\* line 114: bedrock_world = amulet.load_level(...)
LoadLevel ==
    /\ c_pc = "load_level"
    /\ \/ /\ bedrock_world' = "handle"
          /\ opened' = opened \cup {"bedrock_world"}
          /\ c_pc' = "read_level"
          /\ UNCHANGED <<c_exc, c_body>>
       \/ /\ \E e \in {"LoaderNoneMatched", "Exception"} : ConvRaise(e)
          /\ UNCHANGED <<bedrock_world, opened>>
    /\ UNCHANGED <<outside_convert, world_writable, java_world, temp_root,
                   snapshot_root, java_wrapper, closes, suppressed,
                   c_result, c_interrupts>>

\* lines 117-123: level name, dimensions and bounds are read
ReadLevel ==
    /\ c_pc = "read_level"
    /\ \/ /\ c_pc' = "rmtree_java"
          /\ UNCHANGED <<c_exc, c_body>>
       \/ ConvRaise("Exception")
    /\ UNCHANGED <<outside_convert, world_writable, java_world, temp_root,
                   snapshot_root, bedrock_world, java_wrapper, opened,
                   closes, suppressed, c_result, c_interrupts>>

\* lines 126-128: the converted world of the previous cycle is removed
RmtreeJava ==
    /\ c_pc = "rmtree_java"
    /\ IF java_world = "absent"
          THEN /\ c_pc' = "AnvilFormat"
               /\ UNCHANGED <<java_world, c_exc, c_body>>
          ELSE \/ /\ java_world' = "absent"
                  /\ c_pc' = "AnvilFormat"
                  /\ UNCHANGED <<c_exc, c_body>>
               \/ /\ java_world' \in {java_world, "partial"}
                  /\ ConvRaise("OSError")
    /\ UNCHANGED <<outside_convert, world_writable, temp_root, snapshot_root,
                   bedrock_world, java_wrapper, opened, closes, suppressed,
                   c_result, c_interrupts>>

\* line 135: java_wrapper = AnvilFormat(...)
NewAnvilFormat ==
    /\ c_pc = "AnvilFormat"
    /\ \/ /\ java_wrapper' = "handle"
          /\ opened' = opened \cup {"java_wrapper"}
          /\ c_pc' = "create_and_open"
          /\ UNCHANGED <<c_exc, c_body>>
       \/ /\ ConvRaise("Exception")
          /\ UNCHANGED <<java_wrapper, opened>>
    /\ UNCHANGED <<outside_convert, world_writable, java_world, temp_root,
                   snapshot_root, bedrock_world, closes, suppressed,
                   c_result, c_interrupts>>

\* lines 136-140: java_wrapper.create_and_open(..., overwrite=True)
CreateAndOpen ==
    /\ c_pc = "create_and_open"
    /\ \/ /\ java_world' = "partial"
          /\ c_pc' = "save"
          /\ UNCHANGED <<c_exc, c_body>>
       \/ /\ java_world' \in {java_world, "partial"}
          /\ ConvRaise("Exception")
    /\ UNCHANGED <<outside_convert, world_writable, temp_root, snapshot_root,
                   bedrock_world, java_wrapper, opened, closes, suppressed,
                   c_result, c_interrupts>>

\* line 142: bedrock_world.save(wrapper=java_wrapper)
Save ==
    /\ c_pc = "save"
    /\ \/ /\ java_world' = "new"
          /\ c_pc' = "close_java"
          /\ UNCHANGED <<c_exc, c_body>>
       \/ /\ java_world' = "partial"
          /\ ConvRaise("Exception")
    /\ UNCHANGED <<outside_convert, world_writable, temp_root, snapshot_root,
                   bedrock_world, java_wrapper, opened, closes, suppressed,
                   c_result, c_interrupts>>

\* lines 145-146: java_wrapper.close(); java_wrapper = None
CloseJava ==
    /\ c_pc = "close_java"
    /\ closes' = [closes EXCEPT !["java_wrapper"] = @ + 1]
    /\ \/ /\ java_wrapper' = "None"
          /\ c_pc' = "close_bedrock"
          /\ UNCHANGED <<c_exc, c_body>>
       \/ /\ ConvRaise("CloseError")
          /\ UNCHANGED java_wrapper
    /\ UNCHANGED <<outside_convert, world_writable, java_world, temp_root,
                   snapshot_root, bedrock_world, opened, suppressed,
                   c_result, c_interrupts>>

\* lines 147-148: bedrock_world.close(); bedrock_world = None
CloseBedrock ==
    /\ c_pc = "close_bedrock"
    /\ closes' = [closes EXCEPT !["bedrock_world"] = @ + 1]
    /\ \/ /\ bedrock_world' = "None"
          /\ c_pc' = "return"
          /\ UNCHANGED <<c_exc, c_body>>
       \/ /\ ConvRaise("CloseError")
          /\ UNCHANGED bedrock_world
    /\ UNCHANGED <<outside_convert, world_writable, java_world, temp_root,
                   snapshot_root, java_wrapper, opened, suppressed,
                   c_result, c_interrupts>>

\* lines 153-157: return MapConfig(...); the finally clause runs first
Return ==
    /\ c_pc = "return"
    /\ c_result' = "MapConfig"
    /\ c_body' = "returned"
    /\ c_pc' = "finally_java"
    /\ UNCHANGED <<outside_convert, world_writable, java_world, temp_root,
                   snapshot_root, bedrock_world, java_wrapper, opened,
                   closes, suppressed, c_exc, c_interrupts>>

\* the "is not None" tests of lines 169, 174 and 179
NeedsCleanup_Never(local) == FALSE
NeedsCleanup(local) == local # "None"

\* "except Exception: pass" of lines 172, 177 and 182: the exception in
\* flight after a cleanup call raised failure while pending was in flight
Suppress_Escalates(pending, failure) == failure
Suppress(pending, failure) == pending

\* lines 169-173: close the Java writer if it is still bound
FinallyJava ==
    /\ c_pc = "finally_java"
    /\ c_pc' = "finally_bedrock"
    /\ IF NeedsCleanup(java_wrapper)
          THEN /\ closes' = [closes EXCEPT !["java_wrapper"] = @ + 1]
               /\ \/ UNCHANGED <<suppressed, c_exc>>
                  \/ /\ suppressed' = suppressed \cup {"java_wrapper.close"}
                     /\ c_exc' = Suppress(c_exc, "CleanupError")
          ELSE UNCHANGED <<closes, suppressed, c_exc>>
    /\ UNCHANGED <<outside_convert, world_writable, java_world, temp_root,
                   snapshot_root, bedrock_world, java_wrapper, opened,
                   c_body, c_result, c_interrupts>>

\* lines 174-178: close the Bedrock source if it is still bound
FinallyBedrock ==
    /\ c_pc = "finally_bedrock"
    /\ c_pc' = "finally_snapshot"
    /\ IF NeedsCleanup(bedrock_world)
          THEN /\ closes' = [closes EXCEPT !["bedrock_world"] = @ + 1]
               /\ \/ UNCHANGED <<suppressed, c_exc>>
                  \/ /\ suppressed' = suppressed \cup {"bedrock_world.close"}
                     /\ c_exc' = Suppress(c_exc, "CleanupError")
          ELSE UNCHANGED <<closes, suppressed, c_exc>>
    /\ UNCHANGED <<outside_convert, world_writable, java_world, temp_root,
                   snapshot_root, bedrock_world, java_wrapper, opened,
                   c_body, c_result, c_interrupts>>

\* lines 179-183: remove the snapshot if snapshot_root is bound; then the
\* call returns its result or re-raises the exception in flight
FinallySnapshot ==
    /\ c_pc = "finally_snapshot"
    /\ c_pc' = "done"
    /\ IF NeedsCleanup(snapshot_root)
          THEN \/ /\ temp_root' = "removed"
                  /\ UNCHANGED <<suppressed, c_exc>>
               \/ /\ suppressed' = suppressed \cup {"rmtree"}
                  /\ c_exc' = Suppress(c_exc, "CleanupError")
                  /\ UNCHANGED temp_root
          ELSE UNCHANGED <<temp_root, suppressed, c_exc>>
    /\ c_result' = IF c_exc' = "none" THEN c_result ELSE "none"
    /\ UNCHANGED <<outside_convert, world_writable, java_world, snapshot_root,
                   bedrock_world, java_wrapper, opened, closes, c_body,
                   c_interrupts>>

\* a KeyboardInterrupt before the next statement: in the try body it is
\* caught by neither handler and the finally clause runs; in the finally
\* clause "except Exception" does not catch it and it leaves the call
ConvInterrupt ==
    /\ c_interrupts < MaxInterrupts
    /\ c_pc \in BodyPcs \cup FinallyPcs
    /\ c_interrupts' = c_interrupts + 1
    /\ c_exc' = "KeyboardInterrupt"
    /\ c_result' = "none"
    /\ IF c_pc \in BodyPcs
          THEN /\ c_pc' = "finally_java"
               /\ c_body' = "KeyboardInterrupt"
          ELSE /\ c_pc' = "done"
               /\ UNCHANGED c_body
    /\ UNCHANGED <<outside_convert, world_writable, java_world, temp_root,
                   snapshot_root, bedrock_world, java_wrapper, opened,
                   closes, suppressed>>

NextConvert ==
    \/ PrepareAccess
    \/ PrepareMkdtemp
    \/ PrepareCopytree
    \/ LoadLevel
    \/ ReadLevel
    \/ RmtreeJava
    \/ NewAnvilFormat
    \/ CreateAndOpen
    \/ Save
    \/ CloseJava
    \/ CloseBedrock
    \/ Return
    \/ FinallyJava
    \/ FinallyBedrock
    \/ FinallySnapshot
    \/ ConvInterrupt

SpecConvert == InitConvert /\ [][NextConvert]_vars

\* the call has returned or raised
ConvDone == c_pc = "done"

\* C11: when the source world is not writable, the snapshot directory the
\* call created has been removed by the time the call returns or raises,
\* whichever stage failed (here: with no interrupt and no cleanup failure)
C11_SnapshotRemoved ==
    (ConvDone /\ ~world_writable /\ c_interrupts = 0 /\ suppressed = {})
        => temp_root # "exists"

\* the call ended on one of its three exit paths: success,
\* LoaderNoneMatched, or any other exception
ConvExitPaths == {"none", "LoaderNoneMatched", "Exception", "OSError",
                  "CloseError"}

\* C12: on every exit path (success, LoaderNoneMatched, any other
\* exception) close() has been called on the Java writer if it was created
\* and on the Bedrock source if it was opened
C12_HandlesClosed ==
    (ConvDone /\ c_exc \in ConvExitPaths)
        => \A h \in opened : closes[h] >= 1

\* a conversion fails after both handles exist; each gets its one close()
\* from the finally clause
C12_Witness ==
    /\ ConvDone
    /\ c_exc = "Exception"
    /\ opened = Handles
    /\ closes = [h \in Handles |-> 1]

\* C13 as stated: a failure to close a world handle or to delete the
\* snapshot is never the error the caller sees, so a conversion that has
\* saved the converted world still returns its result
C13_CleanupNeverEscalates ==
    (ConvDone /\ c_interrupts = 0 /\ java_world = "new")
        => (c_exc = "none" /\ c_result = "MapConfig")

\* C13 amended: a failure of the cleanup in the finally clause is
\* suppressed: the call ends as its try body ended, raising the body's own
\* error or returning the result; only the close() calls of the try body
\* (lines 145, 147) raise to the caller
C13_FinallySuppressesCleanupFailure ==
    (ConvDone /\ c_interrupts = 0)
        => /\ c_exc # "CleanupError"
           /\ c_body = "returned" => (c_exc = "none" /\ c_result = "MapConfig")
           /\ c_body # "returned" => (c_exc = c_body /\ c_result = "none")

\* a failing conversion whose cleanup failed twice still raises its own
\* error
C13_Witness ==
    /\ ConvDone
    /\ c_interrupts = 0
    /\ c_exc = "Exception"
    /\ {"java_wrapper.close", "rmtree"} \subseteq suppressed


(* ============== generate_bluemap_config(), lines 186-296 ============== *)
(* The text of a file is a sequence of characters.  Only the classes of    *)
(* characters the patches tell apart are kept: "\n", " " (any other white  *)
(* space), "Q" (a double quote), "x" (any other character), and one symbol *)
(* for each literal the patches search for or write:                        *)
(*   "K"  the key of the file's directive with its colon ("webroot:" in     *)
(*        webserver.conf and webapp.conf, "root:" in storages/file.conf)    *)
(*   "P"  the text of glb_cfg.output_path, "/maps" the storage suffix       *)
(*   "AF" / "AT"  "accept-download: false" / "accept-download: true"        *)
(*   "R"  "render-thread-count:"                                            *)

\* longest text drawn for a configuration file
MaxLen == 4
\* refresh cycles that run generate_bluemap_config / write_map_config
MaxRuns == 2

DirectiveChars == {"K", "x", " ", "\n", "Q"}
CoreChars == {"AF", "R", "1", "x", " ", "\n"}
\* values drawn for --render-threads (type=int, line 565)
RenderThreads == {0 - 1, 12}

TextsOver(chars) == UNION {[1..n -> chars] : n \in 0..MaxLen}
Texts(f) == IF f = "core.conf" THEN TextsOver(CoreChars)
                               ELSE TextsOver(DirectiveChars)

\* \s and \d of Python's re
IsSpace(c) == c \in {" ", "\n"}
NonSpace(c) == ~IsSpace(c)
IsDigit(c) == c \in {"0", "1", "2", "3", "4", "5", "6", "7", "8", "9"}

\* offsets count the characters before a position, 0..Len(s).
\* (?m)^ and (?m)$
AtLineStart(s, i) == i = 0 \/ s[i] = "\n"
AtLineEnd(s, i) == i = Len(s) \/ s[i + 1] = "\n"

\* the offset after the longest run of white space, of other characters
\* and of digits from offset i (a greedy \s*, \S+ or \d+ whose
\* continuation cannot start with a character of the run)
SkipSpace(s, i) ==
    CHOOSE j \in i..Len(s) :
        /\ \A k \in (i + 1)..j : IsSpace(s[k])
        /\ j = Len(s) \/ ~IsSpace(s[j + 1])
SkipNonSpace(s, i) ==
    CHOOSE j \in i..Len(s) :
        /\ \A k \in (i + 1)..j : NonSpace(s[k])
        /\ j = Len(s) \/ ~NonSpace(s[j + 1])
SkipDigits(s, i) ==
    CHOOSE j \in i..Len(s) :
        /\ \A k \in (i + 1)..j : IsDigit(s[k])
        /\ j = Len(s) \/ ~IsDigit(s[j + 1])

NoMatch == 0 - 1

\* greedy \s*$ from offset c: the last offset of the white space run at
\* which a line ends
TrailEnd(s, c) ==
    LET ends == {j \in c..SkipSpace(s, c) : AtLineEnd(s, j)}
    IN  IF ends = {} THEN NoMatch
        ELSE CHOOSE j \in ends : \A k \in ends : k <= j

\* (?:"[^"]*"|\S+)\s*$ from offset b: the quoted alternative is tried
\* first, the bare one when it fails
ValueEnd(s, b) ==
    LET closing == {q \in (b + 2)..Len(s) : s[q] = "Q"}
        quoted == IF b < Len(s) /\ s[b + 1] = "Q" /\ closing # {}
                     THEN TrailEnd(s, CHOOSE q \in closing :
                                          \A r \in closing : q <= r)
                     ELSE NoMatch
        bare == IF b < Len(s) /\ NonSpace(s[b + 1])
                   THEN TrailEnd(s, SkipNonSpace(s, b))
                   ELSE NoMatch
    IN  IF quoted # NoMatch THEN quoted ELSE bare

\* (?m)^\s*KEY\s*(?:"[^"]*"|\S+)\s*$ (lines 243, 263, 284) at offset i:
\* the offset where the match ends, or NoMatch
DirectiveMatchEnd(s, i) ==
    IF ~AtLineStart(s, i) THEN NoMatch
    ELSE LET a == SkipSpace(s, i)
         IN  IF a < Len(s) /\ s[a + 1] = "K"
                THEN ValueEnd(s, SkipSpace(s, a + 1))
                ELSE NoMatch

\* re.subn(pattern, line, content) from offset i on: every leftmost
\* non-overlapping match is replaced by line
RECURSIVE Subn(_, _, _)
Subn(s, i, line) ==
    IF i >= Len(s) THEN [text |-> <<>>, count |-> 0]
    ELSE LET e == DirectiveMatchEnd(s, i)
         IN  IF e # NoMatch
                THEN LET r == Subn(s, e, line)
                     IN  [text |-> line \o r.text, count |-> r.count + 1]
                ELSE LET r == Subn(s, i + 1, line)
                     IN  [text |-> <<s[i + 1]>> \o r.text, count |-> r.count]

\* updated.endswith("\n") (lines 249, 269, 290)
EndsWithNewline_Always(s) == TRUE
EndsWithNewline(s) == Len(s) > 0 /\ s[Len(s)] = "\n"

\* lines 241-252 (and 261-272, 281-293): replace the directive, or append
\* it when nothing was replaced
PatchDirective(content, line) ==
    LET r == Subn(content, 0, line)
    IN  IF r.count = 0
           THEN (IF EndsWithNewline(r.text) THEN r.text
                                            ELSE r.text \o <<"\n">>)
                \o line \o <<"\n">>
           ELSE r.text

\* webroot_line (lines 241, 261) and root_line (line 282)
DirectiveLine(f) ==
    IF f = "storages/file.conf" THEN <<"K", " ", "Q", "P", "/maps", "Q">>
                                ELSE <<"K", " ", "Q", "P", "Q">>

\* str(n) of f'render-thread-count: {glb_cfg.render_threads}'
RECURSIVE DecDigits(_)
DecDigits(n) ==
    LET d == <<"0", "1", "2", "3", "4", "5", "6", "7", "8", "9">>
    IN  IF n < 10 THEN <<d[n + 1]>>
                  ELSE DecDigits(n \div 10) \o <<d[(n % 10) + 1]>>
Str(n) == IF n < 0 THEN <<"-">> \o DecDigits(0 - n) ELSE DecDigits(n)

\* lines 219-222: content.replace("accept-download: false", "... true")
ReplaceAcceptDownload(s) ==
    [i \in 1..Len(s) |-> IF s[i] = "AF" THEN "AT" ELSE s[i]]

\* render-thread-count:\s*\d+ (line 228) at offset i
ThreadCountMatchEnd(s, i) ==
    IF i < Len(s) /\ s[i + 1] = "R"
       THEN LET a == SkipSpace(s, i + 1)
                d == SkipDigits(s, a)
            IN  IF d > a THEN d ELSE NoMatch
       ELSE NoMatch

\* lines 227-231: re.sub of the thread count
RECURSIVE SubThreadCount(_, _, _)
SubThreadCount(s, i, repl) ==
    IF i >= Len(s) THEN <<>>
    ELSE LET e == ThreadCountMatchEnd(s, i)
         IN  IF e # NoMatch THEN repl \o SubThreadCount(s, e, repl)
                            ELSE <<s[i + 1]>> \o SubThreadCount(s, i + 1, repl)

\* lines 215-233
PatchCore(content, threads) ==
    SubThreadCount(ReplaceAcceptDownload(content), 0,
                   <<"R", " ">> \o Str(threads))

\* what one run makes of the text of an existing file
Patch(f, content, threads) ==
    IF f = "core.conf" THEN PatchCore(content, threads)
                       ELSE PatchDirective(content, DirectiveLine(f))

\* lines 194-211: "java -jar bluemap -c config_dir" writes the default of
\* every missing file, or fails or times out before it has written any
DefaultText(f) ==
    IF f = "core.conf" THEN <<"AF", "\n", "R", " ", "1", "\n">>
                       ELSE <<"K", " ", "Q", "x", "Q", "\n">>
Generated(files, outcome) ==
    IF files["core.conf"].exists \/ outcome = "failed" THEN files
    ELSE [f \in ConfFiles |->
            IF files[f].exists THEN files[f] ELSE File(DefaultText(f))]

\* a configuration directory that holds one file, or none, and the
\* settings of the run
InitConfig ==
    /\ MainIdle
    /\ ConvIdle
    /\ MapCfgIdle
    /\ PathIdle
    /\ render_threads \in RenderThreads
    /\ \/ conf_given = [g \in ConfFiles |-> Absent]
       \/ \E f \in ConfFiles : \E t \in Texts(f) :
              conf_given = [g \in ConfFiles |->
                               IF g = f THEN File(t) ELSE Absent]
    /\ conf_files = conf_given
    /\ conf_once = conf_given
    /\ n_generate = 0

\* one call of generate_bluemap_config: defaults are generated when
\* core.conf is missing, then every file that exists is patched
GenerateConfigRun ==
    /\ n_generate < MaxRuns
    /\ \E outcome \in {"generated", "failed"} :
          LET files == Generated(conf_files, outcome)
              patched == [f \in ConfFiles |->
                            IF files[f].exists
                               THEN File(Patch(f, files[f].text,
                                               render_threads))
                               ELSE Absent]
          IN  /\ conf_files' = patched
              /\ conf_once' = IF n_generate = 0 THEN patched ELSE conf_once
    /\ n_generate' = n_generate + 1
    /\ UNCHANGED <<outside_config, render_threads, conf_given>>

NextConfig == GenerateConfigRun

SpecConfig == InitConfig /\ [][NextConfig]_vars

\* C14: for every content of the four files and fixed settings, running
\* generate_bluemap_config twice leaves each file as running it once did
C14_PatchIdempotent ==
    n_generate = 2 =>
        \A f \in ConfFiles : conf_given[f].exists
                                 => conf_files[f] = conf_once[f]

\* the files patched by replacing or appending one directive
DirectiveFiles == ConfFiles \ {"core.conf"}

\* the pieces of a text between its newlines, and its lines (a final
\* newline ends the last line, it does not start another)
RECURSIVE SplitLines(_)
SplitLines(s) ==
    LET nl == {i \in 1..Len(s) : s[i] = "\n"}
    IN  IF nl = {} THEN <<s>>
        ELSE LET i == CHOOSE j \in nl : \A k \in nl : j <= k
             IN  <<SubSeq(s, 1, i - 1)>>
                 \o SplitLines(SubSeq(s, i + 1, Len(s)))
TextLines(s) ==
    LET l == SplitLines(s)
    IN  IF l[Len(l)] = <<>> THEN SubSeq(l, 1, Len(l) - 1) ELSE l

\* a line that sets the directive: optional indentation, the key, a quoted
\* or bare value, optional trailing blanks
IsDirectiveLine(l) == DirectiveMatchEnd(l, 0) = Len(l)
\* a line whose first word is the key
IsKeyLine(l) ==
    LET a == SkipSpace(l, 0) IN a < Len(l) /\ l[a + 1] = "K"

\* C15: when an existing webserver.conf, webapp.conf or storages/file.conf
\* holds a line for the directive, the patch replaces only that line:
\* every other line, blank lines included, is unchanged and in place
C15_ReplacesOnlyDirectiveLine ==
    n_generate >= 1 =>
        \A f \in DirectiveFiles :
            LET before == TextLines(conf_given[f].text)
                after == TextLines(conf_once[f].text)
            IN  (/\ conf_given[f].exists
                 /\ \E i \in 1..Len(before) : IsDirectiveLine(before[i]))
                    => after = [i \in 1..Len(before) |->
                                   IF IsDirectiveLine(before[i])
                                      THEN DirectiveLine(f)
                                      ELSE before[i]]

SampleEntries == {"id=old", "name=old", "world=old", "ambient-light=old",
                  "ambient-light=text", "other"}
Samples == UNION {[1..n -> SampleEntries] : n \in 0..MaxLen}

\* lines 315-320: re.sub of id: "...", name: "..." and world: "..."
SubKeyFields(e) ==
    IF e \in {"id=old", "name=old", "world=old"}
       THEN (CASE e = "id=old" -> "id=new"
               [] e = "name=old" -> "name=new"
               [] e = "world=old" -> "world=new")
       ELSE e

\* lines 321-329: re.subn of ambient-light: <number>, appended when no
\* line was replaced
SubAmbientLight(content) ==
    LET hits == {i \in 1..Len(content) : content[i] = "ambient-light=old"}
        updated == [i \in 1..Len(content) |->
                      IF i \in hits THEN "ambient-light=new" ELSE content[i]]
    IN  IF hits = {} THEN updated \o <<"ambient-light=new">> ELSE updated

\* lines 309-332: the target cloned from the sample
CloneSample(sample_content) ==
    SubAmbientLight([i \in 1..Len(sample_content) |->
                        SubKeyFields(sample_content[i])])

\* lines 339-383: the fixed template, filled from the settings
config_content ==
    <<"other", "id=new", "other", "name=new", "other", "world=new",
      "other", "dimension=minecraft:overworld", "other", "sorting=0",
      "other", "start-pos={x: 0, z: 0}", "other", "sky-color=#7dabff",
      "other", "ambient-light=new", "other",
      "hires-view-distance=render_threads*4", "other",
      "lowres-view-distance=render_threads*2", "other",
      "render-edges=true", "other", "save-hires-layer=true", "other",
      "remove-caves-below-y=min_y">>

\* line 309: "if sample_configs and not map_conf_path.exists()"; the glob
\* of line 307 finds the sample (the target is none of its results when
\* it does not exist)
UseSample(sample, target) == sample.exists /\ ~target.exists

\* the maps directory is empty or holds a sample; the target is missing,
\* or is the one an earlier run of the service wrote from the template
InitMapConfig ==
    /\ MainIdle
    /\ ConvIdle
    /\ ConfIdle
    /\ PathIdle
    /\ map_sample \in {Absent} \cup {File(t) : t \in Samples}
    /\ map_target \in {Absent, File(config_content)}
    /\ map_once = map_target
    /\ n_write = 0

\* one call of write_map_config
WriteMapConfigRun ==
    /\ n_write < MaxRuns
    /\ LET written == IF UseSample(map_sample, map_target)
                         THEN File(CloneSample(map_sample.text))
                         ELSE File(config_content)
       IN  /\ map_target' = written
           /\ map_once' = IF n_write = 0 THEN written ELSE map_once
    /\ n_write' = n_write + 1
    /\ UNCHANGED <<outside_mapcfg, map_sample>>

NextMapConfig == WriteMapConfigRun

SpecMapConfig == InitMapConfig /\ [][NextMapConfig]_vars

\* C17: for any initial maps directory (empty, or holding a sample),
\* running write_map_config twice with the same settings and conversion
\* result leaves the target as running it once did
C17_MapConfigIdempotent == n_write = 2 => map_target = map_once


(* ====== normalize_output_path(), lines 51-58; main(), lines 589-593 ====== *)

\* longest path drawn for --output-path
MaxDepth == 3

\* names a path on the command line is made of: "~" is the user's home,
\* "~nobody" the home of a user that does not exist
PathNames == {"webroot", "~", "~nobody", "..", "data", "out"}
ArgPaths ==
    LET parts == UNION {[1..n -> PathNames] : n \in 0..MaxDepth}
    IN  {AbsPath(t) : t \in parts} \cup {RelPath(t) : t \in parts}
\* working directories, one of them itself named webroot
Cwds == {<<"srv">>, <<"srv", "webroot">>}
WorldNames == {"world", "bedrock"}
\* the home directory of the user
Home == <<"root">>

\* PurePath.name and PurePath.parent
Name(path) ==
    IF path.parts = <<>> THEN "" ELSE path.parts[Len(path.parts)]
Parent(path) ==
    IF path.parts = <<>> THEN path
    ELSE [path EXCEPT !.parts = SubSeq(@, 1, Len(@) - 1)]

\* Path.expanduser(): a relative path whose first part starts with "~"
\* has that part replaced by the home directory; RuntimeError when the
\* home directory cannot be determined
ExpandUser(path) ==
    IF path.absolute \/ path.parts = <<>> THEN Returned(path, FALSE)
    ELSE CASE path.parts[1] = "~" ->
                  Returned(AbsPath(Home \o Tail(path.parts)), FALSE)
           [] path.parts[1] = "~nobody" -> Raised("RuntimeError")
           [] OTHER -> Returned(path, FALSE)

\* Path.resolve(): ".." steps up (the root is its own parent) and a path
\* that is a symbolic link is replaced by its target
Follow(parts) ==
    IF \E l \in symlinks : l.link = parts
       THEN (CHOOSE l \in symlinks : l.link = parts).target
       ELSE parts
RECURSIVE ResolveFrom(_, _)
ResolveFrom(seen, rest) ==
    IF rest = <<>> THEN seen
    ELSE ResolveFrom(
             IF Head(rest) = ".."
                THEN SubSeq(seen, 1, Len(seen) - 1)
                ELSE Follow(seen \o <<Head(rest)>>),
             Tail(rest))
Resolve(parts) == ResolveFrom(<<>>, parts)

\* line 56: normalized.name != "webroot"
NeedsWebroot_Always(path) == TRUE
NeedsWebroot(path) == Name(path) # "webroot"

\* lines 51-58
NormalizeOutputPath(path) ==
    LET expanded == ExpandUser(path)
        normalized == IF expanded.path.absolute THEN expanded.path
                      ELSE AbsPath(Resolve(cwd \o expanded.path.parts))
    IN  IF expanded.raised # "none" THEN expanded
        ELSE IF NeedsWebroot(normalized)
                THEN Returned(AbsPath(normalized.parts \o <<"webroot">>),
                              TRUE)
                ELSE Returned(normalized, FALSE)

\* lines 592-593: output_path.parent / f"java_{bedrock_world_dir.name}",
\* where output_path is the normalized path
DefaultJavaWorldDir_BesideOutput(normalized, name) ==
    AbsPath(Parent(Parent(normalized)).parts \o <<"java_" \o name>>)
DefaultJavaWorldDir(normalized, name) ==
    AbsPath(Parent(normalized).parts \o <<"java_" \o name>>)

InitPaths ==
    /\ MainIdle
    /\ ConvIdle
    /\ ConfIdle
    /\ MapCfgIdle
    /\ arg_output_path \in ArgPaths
    /\ arg_java_world \in {"None", "given"}
    /\ world_name \in WorldNames
    /\ cwd \in Cwds
    /\ symlinks \in {{}, {[link |-> cwd \o <<"webroot">>,
                          target |-> <<"data">>]}}
    /\ output_path = Raised("unset")
    /\ java_world_dir = RelPath(<<>>)
    /\ n_normalize = 0

\* lines 589-593 of main(): the output path is normalized and the
\* converted-world path taken from the command line or derived
DerivePaths ==
    /\ n_normalize = 0
    /\ output_path' = NormalizeOutputPath(arg_output_path)
    /\ java_world_dir' =
           IF output_path'.raised # "none" THEN java_world_dir
           ELSE IF arg_java_world # "None" THEN AbsPath(<<arg_java_world>>)
           ELSE DefaultJavaWorldDir(output_path'.path, world_name)
    /\ n_normalize' = 1
    /\ UNCHANGED <<outside_paths, arg_output_path, arg_java_world,
                   world_name, cwd, symlinks>>

\* normalize_output_path applied to a path it returned
Renormalize ==
    /\ n_normalize >= 1
    /\ n_normalize < MaxRuns
    /\ output_path.raised = "none"
    /\ output_path' = NormalizeOutputPath(output_path.path)
    /\ n_normalize' = n_normalize + 1
    /\ UNCHANGED <<outside_paths, arg_output_path, arg_java_world,
                   world_name, cwd, symlinks, java_world_dir>>

NextPaths ==
    \/ DerivePaths
    \/ Renormalize

SpecPaths == InitPaths /\ [][NextPaths]_vars

\* C18 as stated: for any input path the result is absolute and ends in
\* "webroot", the segment was appended only if the input did not already
\* end in it, and normalizing the result again returns it unchanged
C18_NormalizeAnyPath ==
    /\ [](n_normalize >= 1 =>
            /\ output_path.raised = "none"
            /\ output_path.path.absolute
            /\ Name(output_path.path) = "webroot"
            /\ (n_normalize = 1 /\ output_path.appended)
                   => Name(arg_output_path) # "webroot")
    /\ [][n_normalize >= 1 => output_path'.path = output_path.path]_vars

\* C18 amended: whenever the home reference can be expanded the result is
\* absolute and ends in "webroot"; the segment is appended exactly when the
\* expanded, resolved path does not end in it (so, for an absolute input or
\* without symbolic links, only if the input did not end in it); and
\* normalizing the result again returns it unchanged
C18_NormalizeExpandablePath ==
    /\ [](n_normalize >= 1 =>
            /\ output_path.raised = "none"
                   <=> ExpandUser(arg_output_path).raised = "none"
            /\ output_path.raised = "none" =>
                  /\ output_path.path.absolute
                  /\ Name(output_path.path) = "webroot"
                  /\ (/\ n_normalize = 1
                      /\ output_path.appended
                      /\ arg_output_path.absolute \/ symlinks = {})
                         => Name(arg_output_path) # "webroot"
                  /\ n_normalize = 1 =>
                         LET expanded == ExpandUser(arg_output_path).path
                             base == IF expanded.absolute
                                        THEN expanded.parts
                                        ELSE Resolve(cwd \o expanded.parts)
                         IN  /\ output_path.appended
                                    <=> Name(AbsPath(base)) # "webroot"
                             /\ output_path.path.parts =
                                    IF output_path.appended
                                       THEN base \o <<"webroot">>
                                       ELSE base)
    /\ [][n_normalize >= 1 => output_path'.path = output_path.path]_vars

\* the relative path "out/.." was resolved against /srv, webroot appended,
\* and the result normalized once more
C18_Witness ==
    /\ n_normalize = 2
    /\ arg_output_path = RelPath(<<"out", "..">>)
    /\ cwd = <<"srv">>
    /\ output_path.path = AbsPath(<<"srv", "webroot">>)

\* main has derived the paths for an absolute output path P that does not
\* end in "webroot", no converted-world path being given
DerivedFromPlainPath ==
    /\ n_normalize >= 1
    /\ output_path.raised = "none"
    /\ arg_java_world = "None"
    /\ arg_output_path.absolute
    /\ Name(arg_output_path) # "webroot"

\* C19 as stated: the web-root is P/webroot and the converted-world path
\* is <parent of P>/java_<source world directory name>
C19_JavaWorldBesideOutputPath ==
    DerivedFromPlainPath =>
        /\ output_path.path = AbsPath(arg_output_path.parts \o <<"webroot">>)
        /\ java_world_dir = AbsPath(Parent(arg_output_path).parts
                                        \o <<"java_" \o world_name>>)

\* C19 amended: the web-root is P/webroot and the converted-world path is
\* <parent of the web-root>/java_<name>, that is P/java_<name>; for source
\* world "world" and output path /data/out: /data/out/webroot and
\* /data/out/java_world
C19_JavaWorldInsideOutputPath ==
    DerivedFromPlainPath =>
        /\ output_path.path = AbsPath(arg_output_path.parts \o <<"webroot">>)
        /\ java_world_dir = AbsPath(arg_output_path.parts
                                        \o <<"java_" \o world_name>>)
        /\ (/\ arg_output_path = AbsPath(<<"data", "out">>)
            /\ world_name = "world")
               => java_world_dir = AbsPath(<<"data", "out", "java_world">>)

\* the example: source world "world", output path /data/out
C19_Witness ==
    /\ n_normalize = 1
    /\ arg_java_world = "None"
    /\ world_name = "world"
    /\ arg_output_path = AbsPath(<<"data", "out">>)
    /\ output_path.path = AbsPath(<<"data", "out", "webroot">>)
    /\ java_world_dir = AbsPath(<<"data", "out", "java_world">>)


(* ------------- the service loop, lines 512-530, once more ------------- *)

\* the iteration of the current tick is over: the loop sleeps again, or
\* the service has left the loop
TickOver == pc = "sleep" \/ InFinally \/ Left

\* C20: on every scheduled tick exactly one web-server start is attempted,
\* whether or not the tick's refresh cycle failed (with the initial start
\* that is tick + 1 attempts when the tick is over); after a failed start
\* the handle is absent and no web-server is up, and the next tick's stop
\* does nothing before the start is attempted again
C20_OneStartPerTick ==
    /\ []((interrupts = 0 /\ phase = "tick" /\ TickOver)
             => n_start = tick + 1)
    /\ []((interrupts = 0 /\ pc = "sleep" /\ bluemap_process = None)
             => Alive = {})
    /\ [][(/\ pc = "stop_poll"
           /\ stop_caller = "loop"
           /\ bluemap_process = None
           /\ pc' # pc
           /\ interrupts' = interrupts)
              => (/\ pc' = "clear_handle"
                  /\ stop_ops' = <<>>
                  /\ n_terminate' = n_terminate
                  /\ n_kill' = n_kill)]_vars


(* ------ convert_bedrock_map_to_java_map(), lines 95-183, once more ------ *)

\* C21: cancellation is cooperative: an interrupt never preempts a
\* conversion in progress, so a conversion that has opened the source
\* world ends by its own completion or failure, never by the interrupt
C21_InterruptNeverPreempts ==
    (ConvDone /\ "bedrock_world" \in opened)
        => c_body # "KeyboardInterrupt"

\* statements of the try body that follow the reading of the level
AfterReadPcs == BodyPcs \ {"access", "mkdtemp", "copytree", "load_level",
                           "read_level"}

\* C22: the previously converted world is touched only by statements that
\* follow the opening of the source world and the reading of its level
\* data; a call that failed to prepare the snapshot or to load the source
\* world ends with the converted world it found
C22_JavaWorldKeptUntilRead ==
    /\ [][java_world' # java_world
             => (/\ c_pc \in AfterReadPcs
                 /\ "bedrock_world" \in opened
                 /\ c_body = "running")]_vars
    /\ []((ConvDone /\ "bedrock_world" \notin opened)
             => java_world \in {"absent", "old"})

\* the snapshot of a read-only world was made, the load failed, and the
\* converted world of the last cycle is still there
C22_Witness ==
    /\ ConvDone
    /\ ~world_writable
    /\ snapshot_root = "temp_root"
    /\ c_body = "LoaderNoneMatched"
    /\ java_world = "old"
====
